---- MODULE Spec2Model ----
(***************************************************************************)
(* Model of pyCandle2017's playback orchestrator                           *)
(* (player/player_manager.py, class PlayerManager) and of its aggregated   *)
(* derivative input processor (inputs/agd/input.py, class                  *)
(* AggregatedDerivative).                                                  *)
(*                                                                         *)
(* PlayerManager's methods are Twisted inlineCallbacks coroutines: a       *)
(* coroutine runs synchronously up to a yield on a Deferred that has not   *)
(* fired, and resumes synchronously, inside the event that fires that      *)
(* Deferred.  Each action below is therefore one reactor event together    *)
(* with every coroutine segment it resumes.                                *)
(*                                                                         *)
(* player/player.py (class OMXPlayer) is not among the source files; the   *)
(* process handle is modelled from the specification's description:        *)
(* spawn() completes when the process is confirmed started or fails,       *)
(* stop() completes when the process has exited, and the end callback is   *)
(* invoked when the process exits on its own, not via an explicit stop.    *)
(***************************************************************************)
EXTENDS Integers, Sequences, FiniteSets

\* Highest play level configured in settings['levels'] (levels 0..NLevels).
NLevels == 2

\* Number of level() calls that get past the guard of line 96 in one run.
MaxCalls == 3

\* buffer_size, the maxlen of the deque of readings.
BufferSize == 4

\* Readings range over 0..MaxReading.
MaxReading == 2

\* Number of readings whose whole arrival history is recorded.
MaxReceived == 6

VARIABLES
    current_level,   \* PlayerManager.current_level
    current_player,  \* PlayerManager.current_player: a player id, 0 for None
    base_player,     \* PlayerManager.base_player: a player id, 0 for None
    done,            \* PlayerManager.done has fired
    players,         \* the process status of every OMXPlayer created so far
    calls,           \* the frame (n, new_player, position) of every level() call
    stop_waiters,    \* level() coroutines suspended on line 108, oldest first
    start_pc,        \* position of the start() coroutine
    stop_pc,         \* position of the stop() coroutine
    stop_target,     \* the player stop() is waiting for on line 125, 0 if none
    _thresholds,     \* AggregatedDerivative._thresholds, entry i for level i
    _readings,       \* AggregatedDerivative._readings, oldest first
    _last_play_level,\* AggregatedDerivative._last_play_level
    wiring_out,      \* the calls the last handler made on the wiring, in order
    emitted_level,   \* the level of the last change_play_level call, 0 if none
    received,        \* the readings delivered so far, where recorded
    last_op          \* the event (and its argument) that produced this state

pm_vars == <<current_level, current_player, base_player, done, players, calls,
             stop_waiters, start_pc, stop_pc, stop_target>>

agd_vars == <<_thresholds, _readings, _last_play_level, wiring_out,
              emitted_level, received>>

vars == <<pm_vars, agd_vars, last_op>>

Levels == 0..NLevels

None == 0

----------------------------------------------------------------------------
(* The external playback process handle (OMXPlayer)                        *)

\* The status of a player's process: "spawning" (launched by spawn(), not yet
\* confirmed), "running", "stopping" (asked to stop), "exited" (exited after
\* a stop), "ended" (exited on its own), "failed" (the spawn failed).
Dead == {"exited", "ended"}

\* OMXPlayer(filename, self, layer=n, ...): a handle whose process has been
\* launched by spawn() and is not yet confirmed.
NewPlayer(n) == "spawning"

\* The players with status s replaced for player p.
WithStatus(ps, p, s) == [ps EXCEPT ![p] = s]

\* handle.stop(): asks a live process to stop; a process that has already
\* exited stays exited.
PlayerStop(ps, p) ==
    IF ps[p] = "running" THEN WithStatus(ps, p, "stopping") ELSE ps

\* The Deferred of handle.stop() has already fired when stop() returns.
StopIsImmediate(ps, p) == ps[p] \in Dead

----------------------------------------------------------------------------
(* PlayerManager                                                           *)

InitPlayer ==
    /\ current_level = 0
    /\ current_player = None
    /\ base_player = None
    /\ done = FALSE
    /\ players = << >>
    /\ calls = << >>
    /\ stop_waiters = << >>
    /\ start_pc = "init"
    /\ stop_pc = "idle"
    /\ stop_target = None
    /\ last_op = [op |-> "init", arg |-> 0]

\* start(): line 83, suspended on connect_to_dbus().
start ==
    /\ start_pc = "init"
    /\ start_pc' = "dbus"
    /\ last_op' = [op |-> "start", arg |-> 0]
    /\ UNCHANGED agd_vars
    /\ UNCHANGED <<current_level, current_player, base_player, done, players,
                   calls, stop_waiters, stop_pc, stop_target>>

\* start() resumed by the D-Bus connection: lines 84-90, suspended on the
\* base player's spawn().
start_dbus_connected ==
    /\ start_pc = "dbus"
    /\ players' = Append(players, NewPlayer(0))
    /\ base_player' = Len(players) + 1
    /\ start_pc' = "spawn"
    /\ last_op' = [op |-> "dbus_connected", arg |-> 0]
    /\ UNCHANGED agd_vars
    /\ UNCHANGED <<current_level, current_player, done, calls, stop_waiters,
                   stop_pc, stop_target>>

\* start() resumed by the base player's spawn confirmation: it returns.
start_spawned ==
    /\ start_pc = "spawn"
    /\ players' = WithStatus(players, base_player, "running")
    /\ start_pc' = "done"
    /\ last_op' = [op |-> "base_spawned", arg |-> 0]
    /\ UNCHANGED agd_vars
    /\ UNCHANGED <<current_level, current_player, base_player, done, calls,
                   stop_waiters, stop_pc, stop_target>>

\* start() resumed by the failure of the base player's spawn: the failure
\* propagates to start()'s caller.
start_spawn_failed ==
    /\ start_pc = "spawn"
    /\ players' = WithStatus(players, base_player, "failed")
    /\ start_pc' = "failed"
    /\ last_op' = [op |-> "base_spawn_failed", arg |-> 0]
    /\ UNCHANGED agd_vars
    /\ UNCHANGED <<current_level, current_player, base_player, done, calls,
                   stop_waiters, stop_pc, stop_target>>

\* Line 96 with the comparison off by one (n + 1 < current_level).
LevelIgnoredOffByOne(n) == n + 1 < current_level

\* Line 96: the guard that makes level(n) return at once.
LevelIgnored(n) == n < current_level

\* level(n) stopping the current player before it spawns the new one (the
\* stop of line 108 moved ahead of line 106).
level_stops_old_first(n) ==
    /\ start_pc = "done"
    /\ last_op' = [op |-> "level", arg |-> n]
    /\ UNCHANGED agd_vars
    /\ IF LevelIgnored(n)
       THEN UNCHANGED <<current_level, current_player, base_player, done,
                        players, calls, stop_waiters, start_pc, stop_pc,
                        stop_target>>
       ELSE /\ Len(calls) < MaxCalls
            /\ players' = Append(IF current_player # None
                                 THEN PlayerStop(players, current_player)
                                 ELSE players,
                                 NewPlayer(n))
            /\ calls' = Append(calls, [n |-> n, pc |-> "spawn",
                                       new_player |-> Len(players) + 1,
                                       old |-> None])
            /\ UNCHANGED <<current_level, current_player, base_player, done,
                           stop_waiters, start_pc, stop_pc, stop_target>>

\* level(n) up to its first suspension: lines 96-106.  A call that gets past
\* the guard creates its player and is suspended on the player's spawn().
level(n) ==
    /\ start_pc = "done"
    /\ last_op' = [op |-> "level", arg |-> n]
    /\ UNCHANGED agd_vars
    /\ IF LevelIgnored(n)
       THEN UNCHANGED <<current_level, current_player, base_player, done,
                        players, calls, stop_waiters, start_pc, stop_pc,
                        stop_target>>
       ELSE /\ Len(calls) < MaxCalls
            /\ players' = Append(players, NewPlayer(n))
            /\ calls' = Append(calls, [n |-> n, pc |-> "spawn",
                                       new_player |-> Len(players) + 1,
                                       old |-> None])
            /\ UNCHANGED <<current_level, current_player, base_player, done,
                           stop_waiters, start_pc, stop_pc, stop_target>>

\* The frame of a level() call that has returned ("done") or raised
\* ("failed"): its locals n and new_player are gone.
Returned(how) == [n |-> 0, pc |-> how, new_player |-> None, old |-> None]

\* Line 107: whether the resumed level() call has an old player to stop.
HasCurrentPlayer == current_player # None

\* Lines 109-110: what call c assigns when it finishes.
LevelCommit(c) == [level |-> calls[c].n, player |-> calls[c].new_player]

\* level() call c resumed by its spawn confirmation: lines 107-110.  With a
\* current player it stops it and is suspended on line 108 (unless that stop
\* completes at once); otherwise it commits and returns.
level_spawned(c) ==
    /\ c \in DOMAIN calls
    /\ calls[c].pc = "spawn"
    /\ last_op' = [op |-> "spawned", arg |-> 0]
    /\ UNCHANGED agd_vars
    /\ LET started == WithStatus(players, calls[c].new_player, "running")
       IN IF HasCurrentPlayer /\ ~StopIsImmediate(started, current_player)
          THEN /\ players' = PlayerStop(started, current_player)
               /\ calls' = [calls EXCEPT ![c].pc = "stop",
                                         ![c].old = current_player]
               /\ stop_waiters' = Append(stop_waiters, c)
               /\ UNCHANGED <<current_level, current_player>>
          ELSE /\ players' = started
               /\ calls' = [calls EXCEPT ![c] = Returned("done")]
               /\ current_level' = LevelCommit(c).level
               /\ current_player' = LevelCommit(c).player
               /\ UNCHANGED stop_waiters
    /\ UNCHANGED <<base_player, done, start_pc, stop_pc, stop_target>>

\* A failed spawn after which the previous foreground player is stopped all
\* the same (lines 107-108 run in spite of the exception).
SpawnFailureStopsOld(c) ==
    [level |-> current_level, player |-> current_player,
     players |-> IF current_player # None
                 THEN PlayerStop(players, current_player)
                 ELSE players]

\* What a failed spawn leaves of the manager's state: the exception leaves
\* level() at line 106, so lines 107-110 do not run.
SpawnFailureState(c) ==
    [level |-> current_level, player |-> current_player, players |-> players]

\* level() call c resumed by the failure of its spawn: the failure is raised
\* at line 106 and propagates to the caller's Deferred.
level_spawn_failed(c) ==
    /\ c \in DOMAIN calls
    /\ calls[c].pc = "spawn"
    /\ last_op' = [op |-> "spawn_failed", arg |-> 0]
    /\ UNCHANGED agd_vars
    /\ calls' = [calls EXCEPT ![c] = Returned("failed")]
    /\ current_level' = SpawnFailureState(c).level
    /\ current_player' = SpawnFailureState(c).player
    /\ players' = WithStatus(SpawnFailureState(c).players,
                             calls[c].new_player, "failed")
    /\ UNCHANGED <<base_player, done, stop_waiters, start_pc, stop_pc,
                   stop_target>>

\* _player_ended clearing the foreground handle only (line 116 missing).
PlayerEndedKeepsLevel(p) == [level |-> current_level, player |-> None]

\* Lines 113-117: _player_ended(level).
PlayerEndedState(p) == [level |-> 0, player |-> None]

\* A foreground process exits on its own: its end callback (line 106's
\* lambda) runs _player_ended.
_player_ended(p) ==
    /\ p \in DOMAIN players
    /\ p # base_player
    /\ players[p] = "running"
    /\ last_op' = [op |-> "ended", arg |-> 0]
    /\ UNCHANGED agd_vars
    /\ players' = WithStatus(players, p, "ended")
    /\ current_level' = PlayerEndedState(p).level
    /\ current_player' = PlayerEndedState(p).player
    /\ UNCHANGED <<base_player, done, calls, stop_waiters, start_pc, stop_pc,
                   stop_target>>

\* The level() calls suspended on the stop of player p, oldest first.
WaitingOn(p) == SelectSeq(stop_waiters, LAMBDA c : calls[c].old = p)

\* Lines 126-127 of stop(): the base player is asked to stop.
StopBase(ps) == PlayerStop(ps, base_player)

\* stop() asking the foreground and the base player to stop together (line
\* 125 without its yield).
stop_all_at_once ==
    /\ start_pc = "done"
    /\ stop_pc = "idle"
    /\ last_op' = [op |-> "stop", arg |-> 0]
    /\ UNCHANGED agd_vars
    /\ players' = StopBase(IF current_player # None
                           THEN PlayerStop(players, current_player)
                           ELSE players)
    /\ stop_pc' = "base"
    /\ stop_target' = current_player
    /\ UNCHANGED <<current_level, current_player, base_player, done, calls,
                   stop_waiters, start_pc>>

\* stop() up to its first suspension: lines 123-127.
stop ==
    /\ start_pc = "done"
    /\ stop_pc = "idle"
    /\ last_op' = [op |-> "stop", arg |-> 0]
    /\ UNCHANGED agd_vars
    /\ IF HasCurrentPlayer /\ ~StopIsImmediate(players, current_player)
       THEN /\ players' = PlayerStop(players, current_player)
            /\ stop_pc' = "fg"
            /\ stop_target' = current_player
       ELSE /\ players' = StopBase(players)
            /\ stop_pc' = "base"
            /\ stop_target' = current_player
    /\ UNCHANGED <<current_level, current_player, base_player, done, calls,
                   stop_waiters, start_pc>>

\* A process that was asked to stop exits.  Every coroutine suspended on
\* its stop is resumed, oldest first: level() calls run lines 109-110 and
\* return, stop() goes on to the base player (lines 126-127) or, once the
\* base player has exited, fires done (line 129).
player_stopped(p) ==
    /\ p \in DOMAIN players
    /\ players[p] = "stopping"
    /\ last_op' = [op |-> "stopped", arg |-> 0]
    /\ UNCHANGED agd_vars
    /\ LET exited == WithStatus(players, p, "exited")
           waiting == WaitingOn(p)
       IN /\ IF waiting = << >>
             THEN UNCHANGED <<current_level, current_player>>
             ELSE /\ current_level' = LevelCommit(waiting[Len(waiting)]).level
                  /\ current_player' = LevelCommit(waiting[Len(waiting)]).player
          /\ calls' = [c \in DOMAIN calls |->
                         IF calls[c].pc = "stop" /\ calls[c].old = p
                         THEN Returned("done")
                         ELSE calls[c]]
          /\ stop_waiters' = SelectSeq(stop_waiters, LAMBDA c : calls[c].old # p)
          /\ IF stop_pc = "fg" /\ stop_target = p
             THEN /\ players' = StopBase(exited)
                  /\ stop_pc' = "base"
                  /\ done' = done
             ELSE IF stop_pc = "base" /\ p = base_player
             THEN /\ players' = exited
                  /\ stop_pc' = "done"
                  /\ done' = TRUE
             ELSE /\ players' = exited
                  /\ UNCHANGED <<stop_pc, done>>
    /\ UNCHANGED <<base_player, start_pc, stop_target>>

NextPlayer ==
    \/ start
    \/ start_dbus_connected
    \/ start_spawned
    \/ start_spawn_failed
    \/ \E n \in Levels : level(n)
    \/ \E c \in 1..MaxCalls : level_spawned(c)
    \/ \E c \in 1..MaxCalls : level_spawn_failed(c)
    \/ \E p \in 1..(MaxCalls + 1) : _player_ended(p)
    \/ \E p \in 1..(MaxCalls + 1) : player_stopped(p)
    \/ stop

\* The input processor as constructed, with the thresholds 1, 2, ...
AgdIdle ==
    /\ _thresholds = [i \in 1..NLevels |-> i]
    /\ _readings = << >>
    /\ _last_play_level = 0
    /\ wiring_out = << >>
    /\ emitted_level = 0
    /\ received = << >>

\* The system as constructed, for the runs of the PlayerManager.
InitForPlayer == InitPlayer /\ AgdIdle

SpecPlayer == InitForPlayer /\ [][NextPlayer]_vars

----------------------------------------------------------------------------
(* AggregatedDerivative                                                    *)

\* The readings a source may deliver.
Values == 0..MaxReading

\* The values a threshold may have: the smallest rise and the largest one
\* that readings in Values can aggregate to.
ThresholdValues == {1, MaxReading}

\* The calls a handler makes on the wiring.
AgdOutput(raw, agd) == [ev |-> "agd_output", a |-> raw, b |-> agd]
ChangePlayLevel(play_level, agd) ==
    [ev |-> "change_play_level", a |-> play_level, b |-> agd]
NotifyAgdThreshold(lvl, value) ==
    [ev |-> "notify_agd_threshold", a |-> lvl, b |-> value]

\* The level of the last change_play_level call among the calls out, or
\* prev when there is none.
LastEmitted(out, prev) ==
    LET changes == SelectSeq(out, LAMBDA e : e.ev = "change_play_level")
    IN IF changes = << >> THEN prev ELSE changes[Len(changes)].a

\* __init__, lines 40-44, for any table of NLevels thresholds.
InitAgd ==
    /\ _thresholds \in [1..NLevels -> ThresholdValues]
    /\ _readings = << >>
    /\ _last_play_level = 0
    /\ wiring_out = << >>
    /\ emitted_level = 0
    /\ received = << >>

\* A deque that is full refuses the new reading instead of dropping its
\* oldest one.
DequeAppendKeepsOldest(rs, reading) ==
    IF Len(rs) = BufferSize THEN rs ELSE Append(rs, reading)

\* deque(maxlen=buffer_size).append(reading), lines 43 and 89: a full deque
\* drops its oldest element.
DequeAppend(rs, reading) ==
    IF Len(rs) = BufferSize THEN Append(Tail(rs), reading)
    ELSE Append(rs, reading)

\* The loop of lines 136-142 from the pair (rs[i], rs[i+1]) on.
RECURSIVE AggregateFrom(_, _, _)
AggregateFrom(rs, i, result) ==
    IF i >= Len(rs) THEN result
    ELSE LET derivative == rs[i + 1] - rs[i]
         IN AggregateFrom(rs, i + 1,
                          IF derivative >= 0 THEN result + derivative ELSE 0)

\* The loop of lines 136-142 without the reset of line 142: a negative
\* derivative is skipped.
RECURSIVE SumRisesFrom(_, _, _)
SumRisesFrom(rs, i, result) ==
    IF i >= Len(rs) THEN result
    ELSE LET derivative == rs[i + 1] - rs[i]
         IN SumRisesFrom(rs, i + 1,
                         IF derivative >= 0 THEN result + derivative
                         ELSE result)

\* _aggregated_derivative() starting at the second pair of readings.
_aggregated_derivative_skips_pair(rs) == AggregateFrom(rs, 2, 0)

\* _aggregated_derivative() without the reset.
_aggregated_derivative_no_reset(rs) == SumRisesFrom(rs, 1, 0)

\* _aggregated_derivative(), lines 128-143, over the readings rs.
_aggregated_derivative(rs) == AggregateFrom(rs, 1, 0)

\* The loop of lines 100-103 from level lvl on.
RECURSIVE ScanThresholds(_, _, _, _)
ScanThresholds(th, agd, lvl, play_level) ==
    IF lvl > Len(th) THEN play_level
    ELSE ScanThresholds(th, agd, lvl + 1,
                        IF agd >= th[lvl] THEN lvl ELSE play_level)

\* Lines 100-103 with a scan that stops at the first threshold met.
PlayLevelFirstMet(agd, th) ==
    LET met == {i \in 1..Len(th) : agd >= th[i]}
    IN IF met = {} THEN 0 ELSE CHOOSE i \in met : \A j \in met : i <= j

\* Lines 100-103: the play level selected for agd.
PlayLevel(agd, th) == ScanThresholds(th, agd, 1, 0)

\* Line 104 reporting every level above 0 (level-triggered instead of
\* edge-triggered).
PlayLevelNonZero(play_level) == play_level # 0

\* Line 104: whether the selected level is reported.
PlayLevelChanged(play_level) == play_level # _last_play_level

\* _handle_new_reading(reading) computing the aggregated derivative before
\* it appends the reading (lines 89 and 90 swapped).
_handle_new_reading_stale(reading) ==
    LET rs == DequeAppend(_readings, reading)
        agd == _aggregated_derivative(_readings)
        play_level == PlayLevel(agd, _thresholds)
    IN /\ _readings' = rs
       /\ IF PlayLevelChanged(play_level)
          THEN /\ _last_play_level' = play_level
               /\ wiring_out' = <<AgdOutput(reading, agd),
                                  ChangePlayLevel(play_level, agd)>>
          ELSE /\ _last_play_level' = _last_play_level
               /\ wiring_out' = <<AgdOutput(reading, agd)>>
       /\ emitted_level' = LastEmitted(wiring_out', emitted_level)
       /\ last_op' = [op |-> "reading", arg |-> reading]
       /\ UNCHANGED <<_thresholds, pm_vars>>

\* _handle_new_reading(reading), lines 86-107.
_handle_new_reading(reading) ==
    LET rs == DequeAppend(_readings, reading)
        agd == _aggregated_derivative(rs)
        play_level == PlayLevel(agd, _thresholds)
    IN /\ _readings' = rs
       /\ IF PlayLevelChanged(play_level)
          THEN /\ _last_play_level' = play_level
               /\ wiring_out' = <<AgdOutput(reading, agd),
                                  ChangePlayLevel(play_level, agd)>>
          ELSE /\ _last_play_level' = _last_play_level
               /\ wiring_out' = <<AgdOutput(reading, agd)>>
       /\ emitted_level' = LastEmitted(wiring_out', emitted_level)
       /\ last_op' = [op |-> "reading", arg |-> reading]
       /\ UNCHANGED <<_thresholds, pm_vars>>

\* A list indexed with the level itself instead of level-1: every index
\* lands one position further.
ListPositionOffByOne(n, i) ==
    IF 0 <= i + 1 /\ i + 1 < n THEN i + 2
    ELSE IF -n <= i + 1 /\ i + 1 < 0 THEN n + i + 2
    ELSE 0

\* Python's list index i on a list of length n, as the position 1..n it
\* designates, or 0 where the list raises IndexError: a negative index
\* counts from the end.
ListPosition(n, i) ==
    IF 0 <= i /\ i < n THEN i + 1
    ELSE IF -n <= i /\ i < 0 THEN n + i + 1
    ELSE 0

\* _set_threshold(level, value), lines 74-82.
_set_threshold(lvl, value) ==
    LET pos == ListPosition(Len(_thresholds), lvl - 1)
    IN /\ IF pos = 0
          THEN /\ _thresholds' = _thresholds
               /\ wiring_out' = << >>
          ELSE /\ _thresholds' = [_thresholds EXCEPT ![pos] = value]
               /\ wiring_out' = <<NotifyAgdThreshold(lvl, value)>>
       /\ last_op' = [op |-> "set_threshold", arg |-> lvl]
       /\ UNCHANGED <<_readings, _last_play_level, emitted_level, received,
                      pm_vars>>

\* _notify_agd_thresholds(), lines 68-71.
_notify_agd_thresholds ==
    /\ wiring_out' = [lvl \in 1..Len(_thresholds) |->
                        NotifyAgdThreshold(lvl, _thresholds[lvl])]
    /\ last_op' = [op |-> "request_thresholds", arg |-> 0]
    /\ UNCHANGED <<_thresholds, _readings, _last_play_level, emitted_level,
                   received, pm_vars>>

\* The levels a set threshold request may carry: every level of the table
\* and the levels just outside it on both sides, down to the first negative
\* level Python rejects.
RequestLevels == (-NLevels)..(NLevels + 1)

NextAgd ==
    \/ \E reading \in Values :
          _handle_new_reading(reading) /\ UNCHANGED received
    \/ \E lvl \in RequestLevels, value \in ThresholdValues :
          _set_threshold(lvl, value)
    \/ _notify_agd_thresholds

\* The system as constructed, for the runs of the input processor.
InitForAgd == InitPlayer /\ InitAgd

SpecAgd == InitForAgd /\ [][NextAgd]_vars

\* The source delivers a reading, and the delivery is recorded.
deliver(reading) ==
    /\ Len(received) < MaxReceived
    /\ received' = Append(received, reading)
    /\ _handle_new_reading(reading)

NextReadings == \E reading \in Values : deliver(reading)

\* The system as constructed, for the runs that only deliver readings.
InitForReadings == InitPlayer /\ AgdIdle

SpecReadings == InitForReadings /\ [][NextReadings]_vars

----------------------------------------------------------------------------
(* The input processor wired to the orchestrator                           *)

\* PlayerManager after start() has returned: the base player is running.
InitStarted ==
    /\ current_level = 0
    /\ current_player = None
    /\ base_player = 1
    /\ done = FALSE
    /\ players = <<"running">>
    /\ calls = << >>
    /\ stop_waiters = << >>
    /\ start_pc = "done"
    /\ stop_pc = "idle"
    /\ stop_target = None
    /\ last_op = [op |-> "init", arg |-> 0]

\* A reading delivered while wiring.change_play_level is wired to
\* PlayerManager.level: _handle_new_reading (lines 86-107 of input.py),
\* whose change_play_level(play_level, comment) call runs level(play_level)
\* up to its first suspension (lines 96-106 of player_manager.py).
wired_reading(reading) ==
    LET rs == DequeAppend(_readings, reading)
        agd == _aggregated_derivative(rs)
        play_level == PlayLevel(agd, _thresholds)
    IN /\ _readings' = rs
       /\ IF PlayLevelChanged(play_level)
          THEN /\ _last_play_level' = play_level
               /\ wiring_out' = <<AgdOutput(reading, agd),
                                  ChangePlayLevel(play_level, agd)>>
               /\ IF LevelIgnored(play_level)
                  THEN UNCHANGED pm_vars
                  ELSE /\ Len(calls) < MaxCalls
                       /\ players' = Append(players, NewPlayer(play_level))
                       /\ calls' = Append(calls,
                                          [n |-> play_level, pc |-> "spawn",
                                           new_player |-> Len(players) + 1,
                                           old |-> None])
                       /\ UNCHANGED <<current_level, current_player,
                                      base_player, done, stop_waiters,
                                      start_pc, stop_pc, stop_target>>
          ELSE /\ _last_play_level' = _last_play_level
               /\ wiring_out' = <<AgdOutput(reading, agd)>>
               /\ UNCHANGED pm_vars
       /\ emitted_level' = LastEmitted(wiring_out', emitted_level)
       /\ last_op' = [op |-> "reading", arg |-> reading]
       /\ UNCHANGED <<_thresholds, received>>

\* The readings delivered to the wired system: no light, or the largest rise.
WiredValues == {0, MaxReading}

NextWired ==
    \/ \E reading \in WiredValues : wired_reading(reading)
    \/ \E c \in 1..MaxCalls : level_spawned(c)
    \/ \E c \in 1..MaxCalls : level_spawn_failed(c)
    \/ \E p \in 1..(MaxCalls + 1) : _player_ended(p)
    \/ \E p \in 1..(MaxCalls + 1) : player_stopped(p)

\* The system once started, with the thresholds 1, 2, ...
InitForWired == InitStarted /\ AgdIdle

SpecWired == InitForWired /\ [][NextWired]_vars

----------------------------------------------------------------------------
(* Claims about PlayerManager, checked under SpecPlayer                    *)

\* The level() calls that are suspended (on their spawn or on line 108).
InFlight == {c \in DOMAIN calls : calls[c].pc \in {"spawn", "stop"}}

\* C1: no step of requestLevel (the call, its resumption by the spawn
\* confirmation or failure, its resumption by the old player's stop) takes
\* currentLevel from a value to a strictly smaller one; only the end
\* callback of a foreground process (onLayerEnded) lowers it.
C1_LevelNeverLoweredByRequest ==
    [][last_op'.op # "ended" => current_level' >= current_level]_vars

\* C2: requestLevel(n) with n < currentLevel changes nothing: currentLevel
\* and the foreground handle stay, no player is created (spawned) and no
\* player's status changes (none is stopped), no coroutine is left suspended.
C2_LowerRequestIsNoOp ==
    [][(last_op'.op = "level" /\ last_op'.arg < current_level)
        => UNCHANGED <<current_level, current_player, base_player, done,
                       players, calls, stop_waiters, stop_pc>>]_vars

\* C2's case: a request below the current level was just made while a
\* foreground player is running.
C2_Witness ==
    /\ last_op.op = "level"
    /\ last_op.arg < current_level
    /\ current_player # None
    /\ players[current_player] = "running"

\* C3: requestLevel(n) with n = currentLevel spawns no process and stops
\* none.
C3_SameLevelSpawnsNothing ==
    [][(last_op'.op = "level" /\ last_op'.arg = current_level)
        => UNCHANGED <<players, calls>>]_vars

\* C4: (a) a foreground player begins to stop on behalf of a level() call
\* only in a step after which that call's new player is confirmed running
\* and the call waits for the stop; (b) a level() call that finishes while
\* no other level() call is in flight leaves currentLevel = n and the
\* foreground handle on its newly spawned player.
C4_SpawnConfirmedBeforeStop ==
    [][/\ \A p \in DOMAIN players :
            (/\ p # base_player
             /\ players[p] # "stopping"
             /\ players'[p] = "stopping"
             /\ last_op'.op # "stop")
            => \E c \in DOMAIN calls :
                 /\ calls[c].pc = "spawn"
                 /\ calls'[c].pc = "stop"
                 /\ calls'[c].old = p
                 /\ players'[calls[c].new_player] = "running"
       /\ \A c \in DOMAIN calls :
            (/\ c \in InFlight
             /\ InFlight = {c}
             /\ calls'[c].pc = "done")
            => /\ current_level' = calls[c].n
               /\ current_player' = calls[c].new_player
               /\ calls[c].pc = "stop" => players'[calls[c].old] = "exited"]_vars

\* C4's case: the only level() call in flight asked for a level above the
\* current one, its new player is confirmed running and the previous
\* foreground player has been asked to stop.
C4_Witness ==
    \E c \in DOMAIN calls :
        /\ InFlight = {c}
        /\ calls[c].pc = "stop"
        /\ calls[c].n > current_level
        /\ current_player = calls[c].old
        /\ players[calls[c].old] = "stopping"
        /\ players[calls[c].new_player] = "running"

\* C5: once no level() call is in progress, the orchestrator does not hold
\* a process that exited on its own as its foreground layer (that exit has
\* returned it to Idle: foreground handle cleared, currentLevel 0).
C5_EndedLayerIsNotCurrent ==
    (InFlight = {} /\ current_player # None)
        => players[current_player] # "ended"

\* C6: when the completion signal of stop() has fired, no process the
\* orchestrator spawned (base or foreground) is still running.
C6_NothingRunsAfterDone ==
    done => \A p \in DOMAIN players : players[p] \notin {"running", "stopping"}

\* C7: stop() asks the current foreground player (if any) to stop and leaves
\* the base player running until that player has exited; without a
\* foreground player it asks the base player to stop at once; done fires
\* exactly when the base player has exited after stop().
C7_StopOrder ==
    /\ last_op.op = "stop"
         => IF current_player # None /\ players[current_player] \notin Dead
            THEN /\ players[current_player] = "stopping"
                 /\ stop_target = current_player
                 /\ players[base_player] = "running"
            ELSE players[base_player] = "stopping"
    /\ stop_pc = "fg" => players[base_player] = "running"
    /\ (stop_pc \in {"base", "done"} /\ stop_target # None)
         => players[stop_target] \in Dead
    /\ stop_pc = "base" => players[base_player] = "stopping" /\ ~done
    /\ stop_pc = "done" <=> done
    /\ done <=> (base_player # None /\ players[base_player] = "exited")

\* C7's case: stop() found a running foreground player, and has completed.
C7_Witness ==
    /\ done
    /\ stop_target # None
    /\ players[stop_target] = "exited"
    /\ last_op.op = "stopped"

\* C8: when the spawn of call c's player fails, the call ends as failed
\* (the failure reaches its caller), currentLevel and the foreground handle
\* keep their values and no other player's status changes (the previous
\* foreground player is not stopped).
C8_SpawnFailureKeepsState ==
    [][\A c \in DOMAIN calls :
         (calls[c].pc = "spawn" /\ last_op'.op = "spawn_failed"
            /\ calls'[c] # calls[c])
         => /\ calls'[c].pc = "failed"
            /\ current_level' = current_level
            /\ current_player' = current_player
            /\ stop_waiters' = stop_waiters
            /\ \A p \in DOMAIN players :
                 p # calls[c].new_player => players'[p] = players[p]]_vars

\* C8's case: a spawn has just failed while a foreground player is running.
C8_Witness ==
    /\ last_op.op = "spawn_failed"
    /\ current_level > 0
    /\ current_player # None
    /\ players[current_player] = "running"

----------------------------------------------------------------------------
(* Claims about AggregatedDerivative, checked under SpecAgd                *)

\* C9: a set threshold whose level is outside 1..N (0, negative, above N)
\* leaves every entry of the threshold table unchanged and makes no
\* threshold notification.
C9_InvalidLevelChangesNothing ==
    [][(last_op'.op = "set_threshold" /\ last_op'.arg \notin 1..NLevels)
        => /\ _thresholds' = _thresholds
           /\ wiring_out' = << >>]_vars

\* C10: a reading makes a change_play_level call exactly when the level
\* selected for it differs from the level of the last change_play_level
\* call made before (0 when there was none), and that call carries the
\* selected level; a reading that selects the same level again makes none.
C10_ChangeIffLevelDiffers ==
    [][last_op'.op = "reading" =>
        LET selected == PlayLevel(_aggregated_derivative(_readings'),
                                  _thresholds)
            changes == SelectSeq(wiring_out',
                                 LAMBDA e : e.ev = "change_play_level")
        IN /\ (changes # << >>) <=> (selected # emitted_level)
           /\ Len(changes) <= 1
           /\ changes # << >> => changes[1].a = selected]_vars

\* C10's case: the last reading selected the level already reported, a
\* level above 0, and made no change_play_level call.
C10_Witness ==
    /\ last_op.op = "reading"
    /\ emitted_level > 0
    /\ PlayLevel(_aggregated_derivative(_readings), _thresholds) = emitted_level
    /\ Len(wiring_out) = 1
    /\ wiring_out[1].ev = "agd_output"

\* The levels whose threshold the value v meets.
Qualifying(v, th) == {i \in 1..Len(th) : v >= th[i]}

\* The largest element of a non-empty set of integers.
MaxOf(S) == CHOOSE x \in S : \A y \in S : y <= x

\* C11: for any threshold table, ascending or not, the level selected for
\* the aggregated value v of a reading is 0 when v meets no threshold and
\* otherwise the highest level whose threshold v meets.
C11_HighestQualifyingLevel ==
    last_op.op = "reading" =>
        LET v == wiring_out[1].b
        IN _last_play_level = IF Qualifying(v, _thresholds) = {} THEN 0
                              ELSE MaxOf(Qualifying(v, _thresholds))

\* C11's case: with a table that is not ascending, a reading selected level
\* 2 although its aggregated value does not meet the threshold of level 1.
C11_Witness ==
    /\ last_op.op = "reading"
    /\ _thresholds[1] > _thresholds[2]
    /\ wiring_out[1].b < _thresholds[1]
    /\ _last_play_level = 2

\* The first position of the longest non-decreasing run of rs that ends at
\* its last element.
RunStart(rs) ==
    CHOOSE k \in 1..Len(rs) :
        /\ \A j \in k..(Len(rs) - 1) : rs[j] <= rs[j + 1]
        /\ \A m \in 1..(k - 1) : \E j \in m..(Len(rs) - 1) : rs[j] > rs[j + 1]

\* C12: the aggregated value reported for a reading is that reading minus
\* the first reading of the longest non-decreasing run of the buffer that
\* ends at it; it is 0 when the reading is below the one before it and 0
\* when the buffer holds fewer than two readings.
C12_RiseOfLastRun ==
    last_op.op = "reading" =>
        LET n == Len(_readings)
            agd == wiring_out[1].b
        IN /\ agd = _readings[n] - _readings[RunStart(_readings)]
           /\ n < 2 => agd = 0
           /\ (n >= 2 /\ _readings[n] < _readings[n - 1]) => agd = 0

\* C12's case: the buffer holds a rise, then a drop, then the rise that
\* ends at the newest reading, and only that last rise is reported.
C12_Witness ==
    /\ last_op.op = "reading"
    /\ Len(_readings) = 4
    /\ _readings[1] < _readings[2]
    /\ _readings[2] > _readings[3]
    /\ _readings[3] < _readings[4]
    /\ wiring_out[1].b = _readings[4] - _readings[3]

----------------------------------------------------------------------------
(* Claims about the buffer of readings, checked under SpecReadings         *)

\* The last n elements of the sequence rs.
LastN(rs, n) == SubSeq(rs, Len(rs) - n + 1, Len(rs))

\* The smaller of two integers.
Min(a, b) == IF a <= b THEN a ELSE b

\* Whether the sequence rs is monotonically non-decreasing.
NonDecreasing(rs) == \A j \in 1..(Len(rs) - 1) : rs[j] <= rs[j + 1]

\* C13: whenever the readings held in the buffer are non-decreasing, the
\* aggregated value reported is the last buffered reading minus the first
\* one, whatever was delivered and evicted before.
C13_MonotoneBufferRise ==
    (received # << >> /\ NonDecreasing(_readings))
        => wiring_out[1].b = _readings[Len(_readings)] - _readings[1]

\* C13's case: the buffer is full and non-decreasing with a rise, after a
\* reading higher than its oldest element has been evicted.
C13_Witness ==
    /\ Len(received) > BufferSize
    /\ NonDecreasing(_readings)
    /\ received[Len(received) - BufferSize] > _readings[1]
    /\ wiring_out[1].b > 0

\* C14: after k readings the buffer holds exactly the most recent
\* min(k, buffer_size) of them in arrival order; it never holds more than
\* buffer_size readings.
C14_BufferIsRecentWindow ==
    /\ Len(_readings) <= BufferSize
    /\ _readings = LastN(received, Min(Len(received), BufferSize))

\* C14's case: more readings than the buffer holds have been delivered, and
\* the oldest one, which differs from all the buffered ones, is gone.
C14_Witness ==
    /\ Len(received) > BufferSize
    /\ Len(_readings) = BufferSize
    /\ \A j \in 1..Len(_readings) : _readings[j] # received[1]

----------------------------------------------------------------------------
(* Further claims about PlayerManager, checked under SpecPlayer            *)

\* C15: level() calls are serialized: at most one call is past its guard
\* and not yet resolved; a call made meanwhile has not spawned anything.
C15_OneCallAtATime == Cardinality(InFlight) <= 1

\* The foreground players whose process is confirmed started and has not
\* exited.
AliveForeground ==
    {p \in DOMAIN players : p # base_player /\ players[p] \in {"running", "stopping"}}

\* C16: while no level() call is in progress, at most one foreground process
\* is alive, and a live one is the orchestrator's foreground handle.
C16_LiveForegroundIsCurrent ==
    InFlight = {} =>
        /\ Cardinality(AliveForeground) <= 1
        /\ \A p \in AliveForeground : p = current_player

\* C20: an empty foreground handle implies currentLevel = 0, in every
\* state between two reactor events.
C20_NoHandleMeansLevelZero == current_player = None => current_level = 0

\* C20's case: a foreground process has just exited on its own while a
\* level() call is suspended, after the level had been raised.
C20_Witness ==
    /\ last_op.op = "ended"
    /\ InFlight # {}
    /\ current_player = None
    /\ \E p \in DOMAIN players : players[p] = "exited"

----------------------------------------------------------------------------
(* Further claims about AggregatedDerivative, checked under SpecAgd        *)

\* C18: a set threshold with a level in 1..N gives the entry of that level
\* the value, leaves every other entry and the length of the table as they
\* were, and makes exactly one threshold notification, with that level and
\* value.
C18_ValidSetOverwritesOneEntry ==
    [][(last_op'.op = "set_threshold" /\ last_op'.arg \in 1..NLevels)
        => LET lvl == last_op'.arg
           IN /\ Len(_thresholds') = Len(_thresholds)
              /\ \A i \in 1..Len(_thresholds) :
                    i # lvl => _thresholds'[i] = _thresholds[i]
              /\ Len(wiring_out') = 1
              /\ wiring_out'[1] = NotifyAgdThreshold(lvl, _thresholds'[lvl])]_vars

\* C18's case: level 1 of the table has just been set to a value that
\* differs from the threshold of level 2.
C18_Witness ==
    /\ last_op.op = "set_threshold"
    /\ last_op.arg = 1
    /\ wiring_out = <<NotifyAgdThreshold(1, _thresholds[1])>>
    /\ _thresholds[1] # _thresholds[2]

\* C19: a reading makes exactly one agd_output call, which carries the
\* reading and the aggregated derivative of the buffer that already holds
\* it, and that call comes before any change_play_level call.
C19_OneAgdOutputFirst ==
    last_op.op = "reading" =>
        /\ _readings[Len(_readings)] = last_op.arg
        /\ wiring_out[1] = AgdOutput(last_op.arg,
                                     _aggregated_derivative(_readings))
        /\ \A k \in 2..Len(wiring_out) : wiring_out[k].ev = "change_play_level"

\* C19's case: a reading raised the aggregated derivative and made both
\* calls, agd_output first.
C19_Witness ==
    /\ last_op.op = "reading"
    /\ Len(wiring_out) = 2
    /\ wiring_out[1].ev = "agd_output"
    /\ wiring_out[1].b > 0
    /\ wiring_out[2].ev = "change_play_level"

----------------------------------------------------------------------------
(* Claim about the wired system, checked under SpecWired                   *)

\* The level selected for the buffer of readings rs.
Selected(rs) == PlayLevel(_aggregated_derivative(rs), _thresholds)

\* The change_play_level calls among the wiring calls out.
Changes(out) == SelectSeq(out, LAMBDA e : e.ev = "change_play_level")

\* C17 as stated: after the level() call started by the only
\* change_play_level call so far (level n = emitted_level) has failed to
\* spawn, a reading that selects level n again makes a new change_play_level
\* call for level n.
C17_FailedLevelIsReemitted ==
    [][(/\ last_op'.op = "reading"
        /\ Len(calls) = 1
        /\ calls[1].pc = "failed"
        /\ Selected(_readings') = emitted_level)
        => \E k \in 1..Len(wiring_out') :
             wiring_out'[k] = ChangePlayLevel(emitted_level, wiring_out'[1].b)]_vars

\* C17 as amended: once a level() call has failed to spawn, a reading that
\* selects the level of the last change_play_level call (level n again,
\* when no reading in between selected another level) makes no
\* change_play_level call and starts no level() call.
C17_FailedLevelIsNotReemitted ==
    [][(/\ last_op'.op = "reading"
        /\ \E c \in DOMAIN calls : calls[c].pc = "failed"
        /\ Selected(_readings') = emitted_level)
        => /\ Changes(wiring_out') = << >>
           /\ calls' = calls
           /\ players' = players]_vars

\* C17's case: the only level() call, for the level last reported, has
\* failed to spawn, and a later reading selected that level again.
C17_Witness ==
    /\ last_op.op = "reading"
    /\ Len(calls) = 1
    /\ calls[1].pc = "failed"
    /\ emitted_level > 0
    /\ Selected(_readings) = emitted_level
    /\ Changes(wiring_out) = << >>

====
